---- MODULE Spec2Model ----
(***************************************************************************)
(* EnergyStorage (src/gz_yeti_pps/energy/storage.py): the cumulative       *)
(* energy ledger of a Yeti power station.  One ledger object, its device   *)
(* collaborator (the snapshot `device.state` returns, or the error it      *)
(* raises) and its clock are modelled; every method call is one step.      *)
(*                                                                         *)
(* Numbers.  Python floats that hold an energy in Wh are modelled as exact *)
(* rationals with denominator WhDen = 3600 and stored as their numerator   *)
(* (so 1 Wh is 3600, 1 J is 1, 1 kWh is 3600000); the three factors of     *)
(* _CONVERSIONS are then integers.  Other floats (amps, volts, watts, soc, *)
(* timestamps) are integers.  A ratio is a pair <<numerator, denominator>>.*)
(* Floating-point rounding, NaN and infinities are outside the model.      *)
(***************************************************************************)
EXTENDS Integers, Sequences, FiniteSets, TLC

(* ------------------------------------------------------------------ *)
(* Python values of a snapshot field: absent/None, a number, or a      *)
(* value float() cannot convert (a non-numeric string).                *)
(* ------------------------------------------------------------------ *)
NoneV == [k |-> "none", v |-> 0]

BadV == [k |-> "bad", v |-> 0]

Num(n) == [k |-> "num", v |-> n]

IsNone(x) == x.k = "none"

\* float(x) returns (x is a number) rather than raising ValueError.
FloatOk(x) == x.k = "num"

(* ------------------------------------------------------------------ *)
(* Bounds of the model.                                                *)
(* ------------------------------------------------------------------ *)
\* raw whOut readings are drawn from 0..MaxRaw (Wh)
MaxRaw == 2

\* update() is not taken once the cumulative total would pass MaxTotal Wh
MaxTotal == 3

\* capacity / stored arguments are drawn from -1..MaxValue
MaxValue == 2

\* clock() returns a timestamp in 0..MaxClock (s)
MaxClock == 2

\* YetiController.energy_storage is read at most MaxReads times
MaxReads == 4

(* ------------------------------------------------------------------ *)
(* Units.                                                              *)
(* ------------------------------------------------------------------ *)
\* denominator of every Wh quantity: 1 J = 1/3600 Wh
WhDen == 3600

\* 1 kWh = 1000 Wh
KwhFactor == 1000

\* a float Wh reading of n Wh
Wh(n) == n * WhDen

Units == {"wh", "kwh", "j"}

\* _CONVERSIONS[unit] (unit -> Wh), times WhDen
CONVERSIONS(u) ==
    CASE u = "wh" -> WhDen
      [] u = "kwh" -> KwhFactor * WhDen
      [] u = "j" -> 1

VARIABLES
    constructed,      \* an EnergyStorage object exists (__init__ returned)
    unit,             \* self._unit
    capacity_wh,      \* self._capacity_wh
    stored_wh,        \* self._stored_wh
    initial_wh_out,   \* self._initial_wh_out (Optional[float])
    prev_wh_out,      \* self._prev_wh_out (Optional[float])
    delta_wh,         \* self._delta_wh, the cumulative total total_out_wh returns
    history,          \* self._history, a deque(maxlen = max_history)
    max_history,      \* the deque's maxlen
    op,               \* the last call made
    exc,              \* the exception that call raised, "none" if it returned
    ok_last,          \* history: whOut read by the last update() that returned
    ok_mono,          \* history: the whOut of the updates that returned never fell
    in_last,          \* history: the last whOut an update() converted (line 144)
    in_sum,           \* history: sum of max(0, rise) over the whOut converted
    arg,              \* history: the argument of the last setter / switch_unit call
    before,           \* history: <<stored_wh, capacity_wh>> before the last call
    ret,              \* what the last call returned, NoneV when it returns None
    reads             \* history: reads of YetiController.energy_storage made,
                      \* those that returned, and the device.state reads they made

ledger == <<unit, capacity_wh, stored_wh, initial_wh_out, prev_wh_out, delta_wh,
            history, max_history>>

vars == <<constructed, unit, capacity_wh, stored_wh, initial_wh_out, prev_wh_out,
          delta_wh, history, max_history, op, exc, ok_last, ok_mono,
          in_last, in_sum, arg, before, ret, reads>>

\* the object as a record, for the operators below
Self ==
    [unit |-> unit, capacity_wh |-> capacity_wh, stored_wh |-> stored_wh,
     initial_wh_out |-> initial_wh_out, prev_wh_out |-> prev_wh_out,
     delta_wh |-> delta_wh, history |-> history, max_history |-> max_history]

\* the fields as __init__ leaves them before its first update() (lines 52-64)
Fresh(u, maxlen) ==
    [unit |-> u, capacity_wh |-> 0, stored_wh |-> 0,
     initial_wh_out |-> NoneV, prev_wh_out |-> NoneV,
     delta_wh |-> 0, history |-> <<>>, max_history |-> maxlen]

\* a call's result: the exception raised ("none": returned) and the object after
Ret(L) == [exc |-> "none", L |-> L]

Raise(L, e) == [exc |-> e, L |-> L]

(* ------------------------------------------------------------------ *)
(* Properties and setters.                                             *)
(* ------------------------------------------------------------------ *)
\* _wh_to returning the canonical Wh value whatever the unit
wh_to_canonical(wh, u) == <<wh, WhDen>>

\* _wh_to, lines 188-190: wh / _CONVERSIONS[unit] as the ratio
\* <<numerator, denominator>>
wh_to(wh, u) == <<wh, CONVERSIONS(u)>>

\* capacity (getter), lines 72-74
capacity_get(L) == wh_to(L.capacity_wh, L.unit)

\* stored (getter), lines 84-86
stored_get(L) == wh_to(L.stored_wh, L.unit)

\* capacity.setter without the clamp of lines 81-82
capacity_set_no_clamp(L, value) ==
    IF value < 0 THEN Raise(L, "ValueError")
    ELSE IF L.unit \notin Units THEN Raise(L, "KeyError")
    ELSE Ret([L EXCEPT !.capacity_wh = value * CONVERSIONS(L.unit)])

\* capacity.setter without the sign check of lines 78-79
capacity_set_unchecked(L, value) ==
    IF L.unit \notin Units THEN Raise(L, "KeyError")
    ELSE LET c == value * CONVERSIONS(L.unit)
         IN  Ret([L EXCEPT !.capacity_wh = c,
                           !.stored_wh = IF L.stored_wh > c THEN c ELSE L.stored_wh])

\* capacity.setter; an unknown unit makes _CONVERSIONS[self._unit] raise KeyError
capacity_set(L, value) ==
    IF value < 0 THEN Raise(L, "ValueError")
    ELSE IF L.unit \notin Units THEN Raise(L, "KeyError")
    ELSE LET c == value * CONVERSIONS(L.unit)
         IN  Ret([L EXCEPT !.capacity_wh = c,
                           !.stored_wh = IF L.stored_wh > c THEN c ELSE L.stored_wh])

\* stored.setter clamping to the capacity where lines 93-94 raise
stored_set_clamp(L, value) ==
    IF value < 0 THEN Raise(L, "ValueError")
    ELSE IF L.unit \notin Units THEN Raise(L, "KeyError")
    ELSE LET swh == value * CONVERSIONS(L.unit)
         IN  Ret([L EXCEPT !.stored_wh =
                      IF swh > L.capacity_wh THEN L.capacity_wh ELSE swh])

\* stored.setter
stored_set(L, value) ==
    IF value < 0 THEN Raise(L, "ValueError")
    ELSE IF L.unit \notin Units THEN Raise(L, "KeyError")
    ELSE LET swh == value * CONVERSIONS(L.unit)
         IN  IF swh > L.capacity_wh THEN Raise(L, "ValueError")
             ELSE Ret([L EXCEPT !.stored_wh = swh])

\* state_of_charge, as the ratio <<numerator, denominator>>
state_of_charge(L) ==
    IF L.capacity_wh # 0 THEN <<L.stored_wh, L.capacity_wh>> ELSE <<0, 1>>

\* total_out_wh
total_out_wh(L) == L.delta_wh

\* last: a copy of the newest entry, the empty dict when there is none
last(L) == IF L.history # <<>> THEN L.history[Len(L.history)] ELSE <<>>

\* line 130: Wh per second to W
SecondsPerHour == 3600

\* average_power_w over the raw counter: line 129 reads whOut where it reads
\* total_wh
average_power_w_raw(L) ==
    IF Len(L.history) < 2 THEN NoneV
    ELSE LET first == L.history[1]
             newest == L.history[Len(L.history)]
             dt == newest.timestamp - first.timestamp
         IN  IF dt <= 0 THEN NoneV
             ELSE Num(<<(newest.whOut - first.whOut) * SecondsPerHour, WhDen * dt>>)

\* average_power_w without the test of lines 127-128
average_power_w_any_dt(L) ==
    IF Len(L.history) < 2 THEN NoneV
    ELSE LET first == L.history[1]
             newest == L.history[Len(L.history)]
             dt == newest.timestamp - first.timestamp
         IN  Num(<<(newest.total_wh - first.total_wh) * SecondsPerHour, WhDen * dt>>)

\* average_power_w over the whole session: line 129 takes the newest total
average_power_w_session(L) ==
    IF Len(L.history) < 2 THEN NoneV
    ELSE LET first == L.history[1]
             newest == L.history[Len(L.history)]
             dt == newest.timestamp - first.timestamp
         IN  IF dt <= 0 THEN NoneV
             ELSE Num(<<newest.total_wh * SecondsPerHour, WhDen * dt>>)

\* average_power_w, lines 121-130: None, or the watts (delta_wh / dt) * 3600 as
\* the ratio <<numerator, denominator>> (delta_wh is a count of 1/WhDen Wh)
average_power_w(L) ==
    IF Len(L.history) < 2 THEN NoneV
    ELSE LET first == L.history[1]
             newest == L.history[Len(L.history)]
             dt == newest.timestamp - first.timestamp
         IN  IF dt <= 0 THEN NoneV
             ELSE Num(<<(newest.total_wh - first.total_wh) * SecondsPerHour,
                        WhDen * dt>>)

\* switch_unit keeping the displayed capacity and stored numbers: the canonical
\* values are rescaled to the new unit
switch_unit_rescale(L, new_unit) ==
    IF new_unit \notin Units THEN Raise(L, "ValueError")
    ELSE Ret([L EXCEPT !.unit = new_unit,
                       !.capacity_wh = (L.capacity_wh \div CONVERSIONS(L.unit))
                                           * CONVERSIONS(new_unit),
                       !.stored_wh = (L.stored_wh \div CONVERSIONS(L.unit))
                                         * CONVERSIONS(new_unit)])

\* switch_unit without the membership check of lines 133-134
switch_unit_unchecked(L, new_unit) == Ret([L EXCEPT !.unit = new_unit])

\* switch_unit
switch_unit(L, new_unit) ==
    IF new_unit \notin Units THEN Raise(L, "ValueError")
    ELSE Ret([L EXCEPT !.unit = new_unit])

(* ------------------------------------------------------------------ *)
(* update().                                                           *)
(* ------------------------------------------------------------------ *)
\* ClampDelta without the reset branch of line 151
ClampDeltaNoClamp(raw, prev) == raw - prev

\* lines 150-152: this tick's delta against the previous raw reading
ClampDelta(raw, prev) == IF raw - prev < 0 THEN 0 ELSE raw - prev

\* lines 146-154: delta of the tick (0 on the first one)
TickDelta(L, raw) ==
    IF IsNone(L.initial_wh_out) THEN 0 ELSE ClampDelta(raw, L.prev_wh_out.v)

\* Reconstruct with line 154 skipped on a reset tick
ReconstructKeepPrev(L, raw) ==
    IF IsNone(L.initial_wh_out)
    THEN [L EXCEPT !.initial_wh_out = Num(raw), !.prev_wh_out = Num(raw)]
    ELSE IF raw < L.prev_wh_out.v THEN L
    ELSE [L EXCEPT !.delta_wh = L.delta_wh + TickDelta(L, raw),
                   !.prev_wh_out = Num(raw)]

\* lines 146-154: the counter fields after the tick
Reconstruct(L, raw) ==
    IF IsNone(L.initial_wh_out)
    THEN [L EXCEPT !.initial_wh_out = Num(raw), !.prev_wh_out = Num(raw)]
    ELSE [L EXCEPT !.delta_wh = L.delta_wh + TickDelta(L, raw),
                   !.prev_wh_out = Num(raw)]

\* DeriveWatts computing amps * volts whenever it can, wattsOut reported or not
DeriveWattsPreferProduct(st) ==
    IF ~IsNone(st.ampsOut) /\ ~IsNone(st.volts)
    THEN IF FloatOk(st.ampsOut) /\ FloatOk(st.volts)
         THEN Num(st.ampsOut.v * st.volts.v)
         ELSE st.wattsOut
    ELSE st.wattsOut

\* lines 156-163: watts as reported, else amps * volts, else None
DeriveWatts(st) ==
    IF IsNone(st.wattsOut) /\ ~IsNone(st.ampsOut) /\ ~IsNone(st.volts)
    THEN IF FloatOk(st.ampsOut) /\ FloatOk(st.volts)
         THEN Num(st.ampsOut.v * st.volts.v)
         ELSE NoneV
    ELSE st.wattsOut

\* StoredFromState adding the reported whStored to the stored energy where
\* line 168 overwrites it
StoredFromStateAccumulate(L, wh_stored) ==
    IF IsNone(wh_stored) \/ ~FloatOk(wh_stored) THEN L.stored_wh
    ELSE IF L.stored_wh + Wh(wh_stored.v) > L.capacity_wh THEN L.capacity_wh
    ELSE L.stored_wh + Wh(wh_stored.v)

\* StoredFromState clamping only when a capacity is set: line 169 written
\* `if self._capacity_wh and self._stored_wh > self._capacity_wh`
StoredFromStateUnlessNoCapacity(L, wh_stored) ==
    IF IsNone(wh_stored) \/ ~FloatOk(wh_stored) THEN L.stored_wh
    ELSE IF L.capacity_wh # 0 /\ Wh(wh_stored.v) > L.capacity_wh THEN L.capacity_wh
    ELSE Wh(wh_stored.v)

\* StoredFromState without the clamp of lines 169-170
StoredFromStateNoClamp(L, wh_stored) ==
    IF IsNone(wh_stored) \/ ~FloatOk(wh_stored) THEN L.stored_wh
    ELSE Wh(wh_stored.v)

\* lines 165-172: _stored_wh after the whStored of the snapshot
StoredFromState(L, wh_stored) ==
    IF IsNone(wh_stored) \/ ~FloatOk(wh_stored) THEN L.stored_wh
    ELSE IF Wh(wh_stored.v) > L.capacity_wh THEN L.capacity_wh
    ELSE Wh(wh_stored.v)

\* `float(x) if x is not None else None` raises (lines 180-184)
OptFloatRaises(x) == ~IsNone(x) /\ ~FloatOk(x)

\* building the entry raises ValueError (lines 175-185)
EntryRaises(st, watts) ==
    \/ OptFloatRaises(st.ampsOut)
    \/ OptFloatRaises(st.volts)
    \/ OptFloatRaises(watts)
    \/ OptFloatRaises(st.whStored)
    \/ OptFloatRaises(st.socPercent)

\* lines 175-185
Entry(t, raw, delta, total, st, watts) ==
    [timestamp |-> t, whOut |-> raw, delta_wh |-> delta, total_wh |-> total,
     ampsOut |-> st.ampsOut, volts |-> st.volts, wattsOut |-> watts,
     whStored |-> IF IsNone(st.whStored) THEN NoneV ELSE Num(Wh(st.whStored.v)),
     socPercent |-> st.socPercent]

\* a bounded list that makes room at the wrong end: a full one drops its newest
\* entry
DequeAppendEvictNewest(h, e, maxlen) ==
    IF maxlen = 0 THEN h
    ELSE IF Len(h) >= maxlen THEN Append(SubSeq(h, 1, Len(h) - 1), e)
    ELSE Append(h, e)

\* deque(maxlen).append: a full deque drops its oldest entry, maxlen 0 keeps none
DequeAppend(h, e, maxlen) ==
    IF maxlen = 0 THEN h
    ELSE IF Len(h) >= maxlen THEN Append(Tail(h), e)
    ELSE Append(h, e)

\* line 138: device.state is read once, whatever comes of it
StateReads(st) == 1

\* update(), lines 137-186, after device.state was read; st.raises: the read
\* raised
update_steps(L, st, t) ==
    IF st.raises THEN Raise(L, "DeviceError")
    ELSE IF IsNone(st.whOut) THEN Raise(L, "KeyError")
    ELSE IF ~FloatOk(st.whOut) THEN Raise(L, "ValueError")
    ELSE LET raw == Wh(st.whOut.v)
             L1 == Reconstruct(L, raw)
             watts == DeriveWatts(st)
             L2 == [L1 EXCEPT !.stored_wh = StoredFromState(L1, st.whStored)]
         IN  IF EntryRaises(st, watts) THEN Raise(L2, "ValueError")
             ELSE Ret([L2 EXCEPT !.history =
                          DequeAppend(L2.history,
                                      Entry(t, raw, TickDelta(L, raw), L1.delta_wh,
                                            st, watts),
                                      L2.max_history)])

\* update() with line 141 written s.get('whOut', 0): a missing whOut reads as 0
update_default_raw(L, st, t) ==
    LET r == update_steps(L, IF ~st.raises /\ IsNone(st.whOut)
                             THEN [st EXCEPT !.whOut = Num(0)] ELSE st, t)
    IN  [exc |-> r.exc, L |-> r.L, reads |-> StateReads(st)]

\* update(), lines 137-186: the exception raised, the object after the call and
\* the number of times device.state was read
update(L, st, t) ==
    LET r == update_steps(L, st, t)
    IN  [exc |-> r.exc, L |-> r.L, reads |-> StateReads(st)]

\* __init__, lines 43-66
init(capacity, stored, u, maxlen, st, t) ==
    LET r1 == capacity_set(Fresh(u, maxlen), capacity)
        r2 == stored_set(r1.L, stored)
    IN  IF r1.exc # "none" THEN r1
        ELSE IF r2.exc # "none" THEN r2
        ELSE update(r2.L, st, t)

(* ------------------------------------------------------------------ *)
(* YetiController.energy_storage (src/gz_yeti_pps/controller.py).      *)
(* ------------------------------------------------------------------ *)
\* __init__'s default max_history
DefaultMaxHistory == 1000

\* energy_storage without its else: the ledger it has just constructed is
\* updated as well
energy_storage_no_else(present, L, st, t) ==
    IF present THEN update(L, st, t)
    ELSE LET r1 == init(0, 0, "wh", DefaultMaxHistory, st, t)
             r2 == update(r1.L, st, t)
         IN  IF r1.exc # "none" THEN r1
             ELSE [exc |-> r2.exc, L |-> r2.L, reads |-> r1.reads + r2.reads]

\* energy_storage, controller.py lines 80-87: EnergyStorage(self) with every
\* default when no ledger is held (present: one is), update() on it otherwise
energy_storage(present, L, st, t) ==
    IF ~present THEN init(0, 0, "wh", DefaultMaxHistory, st, t)
    ELSE update(L, st, t)

(* ------------------------------------------------------------------ *)
(* The state machine.                                                  *)
(* ------------------------------------------------------------------ *)
NoState == [raises |-> FALSE, whOut |-> NoneV, ampsOut |-> NoneV, volts |-> NoneV,
            wattsOut |-> NoneV, whStored |-> NoneV, socPercent |-> NoneV]

Store(L) ==
    /\ unit' = L.unit
    /\ capacity_wh' = L.capacity_wh
    /\ stored_wh' = L.stored_wh
    /\ initial_wh_out' = L.initial_wh_out
    /\ prev_wh_out' = L.prev_wh_out
    /\ delta_wh' = L.delta_wh
    /\ history' = L.history
    /\ max_history' = L.max_history

\* no value and no unit was passed
NoArg == [value |-> 0, new_unit |-> ""]

Init ==
    /\ constructed = FALSE
    /\ unit = "wh"
    /\ capacity_wh = 0
    /\ stored_wh = 0
    /\ initial_wh_out = NoneV
    /\ prev_wh_out = NoneV
    /\ delta_wh = 0
    /\ history = <<>>
    /\ max_history = 0
    /\ op = "none"
    /\ exc = "none"
    /\ ok_last = 0
    /\ ok_mono = TRUE
    /\ in_last = 0
    /\ in_sum = 0
    /\ arg = NoArg
    /\ before = <<0, 0>>
    /\ ret = NoneV
    /\ reads = [attempted |-> 0, returned |-> 0, state_reads |-> 0]

\* how far reading b lies above reading a, 0 when it does not
Rise(a, b) == IF b > a THEN b - a ELSE 0

\* EnergyStorage(device, capacity, stored, unit, max_history, clock); a failing
\* __init__ leaves no object
Construct(capacities, storeds, units, maxlens, states, times) ==
    /\ ~constructed
    /\ \E c \in capacities, sv \in storeds, u \in units, m \in maxlens,
          st \in states, t \in times :
          LET r == init(c, sv, u, m, st, t)
          IN  /\ op' = "__init__"
              /\ exc' = r.exc
              /\ arg' = NoArg
              /\ before' = <<0, 0>>
              /\ ret' = NoneV
              /\ UNCHANGED reads
              /\ IF r.exc = "none"
                 THEN /\ constructed' = TRUE
                      /\ Store(r.L)
                      /\ ok_last' = st.whOut.v
                      /\ ok_mono' = TRUE
                      /\ in_last' = st.whOut.v
                      /\ in_sum' = 0
                 ELSE UNCHANGED <<constructed, ledger, ok_last, ok_mono,
                                  in_last, in_sum>>

\* ledger.update()
Update(states, times) ==
    /\ constructed
    /\ \E st \in states, t \in times :
          LET r == update(Self, st, t)
          IN  /\ r.L.delta_wh <= Wh(MaxTotal)
              /\ op' = "update"
              /\ exc' = r.exc
              /\ arg' = NoArg
              /\ before' = <<stored_wh, capacity_wh>>
              /\ ret' = NoneV
              /\ UNCHANGED reads
              /\ Store(r.L)
              /\ IF r.exc = "none"
                 THEN /\ ok_last' = st.whOut.v
                      /\ ok_mono' = (ok_mono /\ st.whOut.v >= ok_last)
                 ELSE UNCHANGED <<ok_last, ok_mono>>
              /\ IF ~st.raises /\ FloatOk(st.whOut)
                 THEN /\ in_last' = st.whOut.v
                      /\ in_sum' = in_sum + Rise(in_last, st.whOut.v)
                 ELSE UNCHANGED <<in_last, in_sum>>
              /\ UNCHANGED constructed

\* ledger.capacity = value
SetCapacity(values) ==
    /\ constructed
    /\ \E value \in values :
          LET r == capacity_set(Self, value)
          IN  /\ op' = "capacity"
              /\ exc' = r.exc
              /\ arg' = [value |-> value, new_unit |-> ""]
              /\ before' = <<stored_wh, capacity_wh>>
              /\ ret' = NoneV
              /\ UNCHANGED reads
              /\ Store(r.L)
              /\ UNCHANGED <<constructed, ok_last, ok_mono, in_last, in_sum>>

\* ledger.stored = value
SetStored(values) ==
    /\ constructed
    /\ \E value \in values :
          LET r == stored_set(Self, value)
          IN  /\ op' = "stored"
              /\ exc' = r.exc
              /\ arg' = [value |-> value, new_unit |-> ""]
              /\ before' = <<stored_wh, capacity_wh>>
              /\ ret' = NoneV
              /\ UNCHANGED reads
              /\ Store(r.L)
              /\ UNCHANGED <<constructed, ok_last, ok_mono, in_last, in_sum>>

\* ledger.switch_unit(new_unit)
SwitchUnit(units) ==
    /\ constructed
    /\ \E u \in units :
          LET r == switch_unit(Self, u)
          IN  /\ op' = "switch_unit"
              /\ exc' = r.exc
              /\ arg' = [value |-> 0, new_unit |-> u]
              /\ before' = <<stored_wh, capacity_wh>>
              /\ ret' = NoneV
              /\ UNCHANGED reads
              /\ Store(r.L)
              /\ UNCHANGED <<constructed, ok_last, ok_mono, in_last, in_sum>>

\* ledger.average_power_w()
AveragePower ==
    /\ constructed
    /\ op' = "average_power_w"
    /\ exc' = "none"
    /\ ret' = average_power_w(Self)
    /\ arg' = NoArg
    /\ before' = <<stored_wh, capacity_wh>>
    /\ UNCHANGED <<constructed, ledger, ok_last, ok_mono, in_last, in_sum, reads>>

\* controller.energy_storage: a construction that raises leaves no ledger
\* assigned (line 83), so the next read constructs again
EnergyStorageRead(states, times) ==
    /\ reads.attempted < MaxReads
    /\ \E st \in states, t \in times :
          LET r == energy_storage(constructed, Self, st, t)
              kept == constructed \/ r.exc = "none"
          IN  /\ op' = "energy_storage"
              /\ exc' = r.exc
              /\ constructed' = kept
              /\ IF kept THEN Store(r.L) ELSE UNCHANGED ledger
              /\ reads' = [attempted |-> reads.attempted + 1,
                           returned |-> reads.returned
                                            + IF r.exc = "none" THEN 1 ELSE 0,
                           state_reads |-> reads.state_reads + r.reads]
              /\ IF r.exc = "none"
                 THEN /\ ok_last' = st.whOut.v
                      /\ ok_mono' = (~constructed
                                         \/ (ok_mono /\ st.whOut.v >= ok_last))
                 ELSE UNCHANGED <<ok_last, ok_mono>>
              /\ IF kept /\ ~st.raises /\ FloatOk(st.whOut)
                 THEN /\ in_last' = st.whOut.v
                      /\ in_sum' = IF constructed
                                   THEN in_sum + Rise(in_last, st.whOut.v) ELSE 0
                 ELSE UNCHANGED <<in_last, in_sum>>
              /\ arg' = NoArg
              /\ before' = <<stored_wh, capacity_wh>>
              /\ ret' = NoneV

(* ------------------------------------------------------------------ *)
(* Inputs.                                                             *)
(* ------------------------------------------------------------------ *)
\* reading device.state raised
Raising == [NoState EXCEPT !.raises = TRUE]

\* whOut as the device may report it: absent, malformed, or a reading
RawValues == {NoneV, BadV} \cup {Num(n) : n \in 0..MaxRaw}

\* whStored as the device may report it (Wh): absent, malformed, negative,
\* positive
StoredValues == {NoneV, BadV, Num(-1), Num(1)}

\* an optional numeric field: absent, malformed, or the number n
Opt(n) == {NoneV, BadV, Num(n)}

Values == -1..MaxValue

\* units a caller may pass: the three supported ones and an unsupported one
UnitArgs == Units \cup {"btu"}

(* ------------------------------------------------------------------ *)
(* Spec: capacity, stored energy and unit under every operation.  The  *)
(* device varies whStored; whOut is absent or 0, socPercent absent or  *)
(* malformed (an update that fails after the stored energy is set).    *)
(* ------------------------------------------------------------------ *)
LedgerStates ==
    {Raising} \cup
    {[NoState EXCEPT !.whOut = w, !.whStored = ws, !.socPercent = c] :
        w \in {NoneV, Num(0)}, ws \in StoredValues, c \in {NoneV, BadV}}

New == Construct(Values, Values, UnitArgs, {1}, LedgerStates, {0})

Tick == Update(LedgerStates, {0})

Capacity == SetCapacity(Values)

Stored == SetStored(Values)

Switch == SwitchUnit(UnitArgs)

Next == New \/ Tick \/ Capacity \/ Stored \/ Switch

Spec == Init /\ [][Next]_vars

(* ------------------------------------------------------------------ *)
(* SpecCounter: the cumulative counter under every operation.  The     *)
(* device varies whOut; socPercent is absent or malformed.             *)
(* ------------------------------------------------------------------ *)
CounterStates ==
    {Raising} \cup
    {[NoState EXCEPT !.whOut = w, !.socPercent = c] :
        w \in RawValues, c \in {NoneV, BadV}}

CounterNew == Construct({0, 1}, {0}, {"wh"}, {1}, CounterStates, {0})

CounterTick == Update(CounterStates, {0})

CounterCapacity == SetCapacity({-1, 0})

CounterStored == SetStored({-1, 1})

CounterSwitch == SwitchUnit({"kwh", "btu"})

CounterNext ==
    CounterNew \/ CounterTick \/ CounterCapacity \/ CounterStored \/ CounterSwitch

SpecCounter == Init /\ [][CounterNext]_vars

(* ------------------------------------------------------------------ *)
(* SpecDevice: update() under every shape of snapshot.                 *)
(* ------------------------------------------------------------------ *)
\* whOut is absent or malformed; or it is a reading and the fields the watts
\* derivation reads vary (lines 156-163), or the two fields read on their own
\* do (lines 165-172, 174)
DeviceStates ==
    {Raising, [NoState EXCEPT !.whOut = NoneV], [NoState EXCEPT !.whOut = BadV]} \cup
    {[NoState EXCEPT !.whOut = w, !.ampsOut = a, !.volts = v, !.wattsOut = p] :
        w \in {Num(0), Num(1)}, a \in Opt(5), v \in Opt(12), p \in Opt(7)} \cup
    {[NoState EXCEPT !.whOut = w, !.whStored = ws, !.socPercent = c] :
        w \in {Num(0), Num(1)}, ws \in StoredValues, c \in Opt(50)}

DeviceNew == Construct({1}, {0}, {"wh"}, {1}, DeviceStates, {0})

DeviceTick == Update(DeviceStates, {0})

DeviceNext == DeviceNew \/ DeviceTick

SpecDevice == Init /\ [][DeviceNext]_vars

(* ------------------------------------------------------------------ *)
(* SpecHistory: the rolling history and the average over it.  The      *)
(* device varies whOut, the clock returns any timestamp (it may stand  *)
(* still or go backward), max_history is 0, 1 or 2.                    *)
(* ------------------------------------------------------------------ *)
Times == 0..MaxClock

MaxHistoryArgs == {0, 1, 2}

HistoryNew == Construct({0}, {0}, {"wh"}, MaxHistoryArgs, CounterStates, Times)

HistoryTick == Update(CounterStates, Times)

HistoryNext == HistoryNew \/ HistoryTick \/ AveragePower

SpecHistory == Init /\ [][HistoryNext]_vars

(* ------------------------------------------------------------------ *)
(* SpecController: the ledger as YetiController.energy_storage builds  *)
(* and polls it: every default, no setter call.  The device reports a  *)
(* raw counter or none, and a whStored that is absent, malformed or    *)
(* non-negative.                                                       *)
(* ------------------------------------------------------------------ *)
ControllerStates ==
    {Raising} \cup
    {[NoState EXCEPT !.whOut = w, !.whStored = ws] :
        w \in {NoneV, Num(0), Num(1)}, ws \in {NoneV, BadV, Num(0), Num(1)}}

ControllerRead == EnergyStorageRead(ControllerStates, {0})

ControllerNext == ControllerRead

SpecController == Init /\ [][ControllerNext]_vars

(* ------------------------------------------------------------------ *)
(* Properties of the cumulative counter (SpecCounter).                 *)
(* ------------------------------------------------------------------ *)
\* C1: across update(), switch_unit() and the capacity / stored setters, whether
\* they return or raise, total_out_wh is non-negative and no step lowers it.
TotalOutNeverDecreases ==
    [][total_out_wh(Self) >= 0 /\ total_out_wh(Self)' >= total_out_wh(Self)]_vars

\* C1 witness: an update has returned on a ledger whose counter fell below its
\* first reading (a reset) and the total is still positive.
TotalKeptAcrossReset ==
    /\ constructed /\ op = "update" /\ exc = "none"
    /\ total_out_wh(Self) > 0
    /\ prev_wh_out.v < initial_wh_out.v

\* C2: right after an update() that returned, if the whOut readings of the
\* updates that returned are non-negative and never fell, total_out_wh is the
\* last of those readings minus the first.
ReturnedReadingsTelescope ==
    (constructed /\ op \in {"__init__", "update"} /\ exc = "none" /\ ok_mono)
        => total_out_wh(Self) = Wh(ok_last) - initial_wh_out.v

\* C3: total_out_wh is the sum over the ticks of max(0, raw_i - raw_(i-1)), the
\* previous reading is the last raw reading on every branch, and a tick whose
\* reading is lower than the previous one adds exactly 0.
TotalIsSumOfRises ==
    constructed =>
        /\ total_out_wh(Self) = Wh(in_sum)
        /\ prev_wh_out = Num(Wh(in_last))
        /\ \A st \in CounterStates :
              (~st.raises /\ FloatOk(st.whOut) /\ st.whOut.v < in_last)
                  => /\ update(Self, st, 0).L.delta_wh = delta_wh
                     /\ update(Self, st, 0).L.prev_wh_out = Num(Wh(st.whOut.v))

\* C3 witness: readings such as 1, 2, 0, 2: the counter stands one above its
\* first reading and the total is 3 (1 + 0 + 2).
ResetThenRise ==
    /\ constructed /\ op = "update" /\ exc = "none"
    /\ initial_wh_out = Num(Wh(1)) /\ in_last = 2 /\ in_sum = 3
    /\ total_out_wh(Self) = Wh(3)

(* ------------------------------------------------------------------ *)
(* Properties of update() and the snapshot it reads (SpecDevice).      *)
(* ------------------------------------------------------------------ *)
\* C4: an update() that raises leaves the ledger (total, previous and initial
\* raw reading, stored energy, capacity, unit, history) as it was.
UpdateAtomicOnFailure ==
    [][(op' = "update" /\ exc' # "none") => ledger' = ledger]_vars

\* snapshots without whOut: every snapshot of the device with whOut removed
MissingRawStates == {[st EXCEPT !.whOut = NoneV] : st \in DeviceStates \ {Raising}}

\* C5: an update() whose device.state read raises, or whose snapshot has no
\* whOut, raises the collaborator's error resp. KeyError, reads device.state
\* once and leaves the ledger, history included, as it was.
ReadFailureLeavesLedger ==
    constructed =>
        \A st \in {Raising} \cup MissingRawStates :
            LET r == update(Self, st, 0)
            IN  /\ r.exc = IF st.raises THEN "DeviceError" ELSE "KeyError"
                /\ r.reads = 1
                /\ r.L = Self

\* C5 witness: update() has raised KeyError on a ledger that has counted energy
\* and holds an entry.
MissingRawRaised ==
    /\ constructed /\ op = "update" /\ exc = "KeyError"
    /\ total_out_wh(Self) > 0 /\ Len(history) = 1

\* C6: with a valid whOut, no wattsOut, and ampsOut and/or volts not
\* convertible, update() returns, appends one entry, and the entry records
\* wattsOut and each unconvertible field as None.
WattsDerivationNeverFails ==
    constructed =>
        \A st \in DeviceStates :
            (/\ ~st.raises /\ FloatOk(st.whOut) /\ IsNone(st.wattsOut)
             /\ (st.ampsOut = BadV \/ st.volts = BadV)
             /\ st.whStored # BadV /\ st.socPercent # BadV)
                => LET r == update(Self, st, 0)
                       e == r.L.history[Len(r.L.history)]
                   IN  /\ r.exc = "none"
                       /\ r.L.history = DequeAppend(history, e, max_history)
                       /\ e.whOut = Wh(st.whOut.v)
                       /\ e.wattsOut = NoneV
                       /\ (st.ampsOut = BadV => e.ampsOut = NoneV)
                       /\ (st.volts = BadV => e.volts = NoneV)

\* C7: with a valid whOut and a malformed whStored, update() returns, the stored
\* energy keeps its value, the total advances by the tick's delta and one entry
\* is appended.
MalformedStoredIsIgnored ==
    constructed =>
        \A st \in DeviceStates :
            (/\ ~st.raises /\ FloatOk(st.whOut) /\ st.whStored = BadV
             /\ st.ampsOut # BadV /\ st.volts # BadV /\ st.wattsOut # BadV
             /\ st.socPercent # BadV)
                => LET r == update(Self, st, 0)
                       e == r.L.history[Len(r.L.history)]
                   IN  /\ r.exc = "none"
                       /\ r.L.stored_wh = stored_wh
                       /\ r.L.delta_wh = delta_wh + Wh(Rise(in_last, st.whOut.v))
                       /\ r.L.history = DequeAppend(history, e, max_history)
                       /\ e.whOut = Wh(st.whOut.v)

(* ------------------------------------------------------------------ *)
(* Properties of capacity and stored energy (Spec).                    *)
(* ------------------------------------------------------------------ *)
\* C8: in every state, after any calls, failing ones included, stored_wh is at
\* most capacity_wh.
StoredWithinCapacity == stored_wh <= capacity_wh

\* C8 witness: an update() has returned on a ledger of capacity 1 J whose device
\* reported 1 Wh stored: the entry holds 1 Wh, the ledger 1 J.
StoredClampedByUpdate ==
    /\ constructed /\ op = "update" /\ exc = "none"
    /\ capacity_wh = 1 /\ stored_wh = 1
    /\ Len(history) = 1 /\ history[1].whStored = Num(Wh(1))

\* C9: in every state stored_wh and capacity_wh are non-negative, whatever the
\* device reports and whatever is passed to the setters.
EnergiesNonNegative == stored_wh >= 0 /\ capacity_wh >= 0

\* C10: in every state state_of_charge lies in [0, 1]; it is
\* stored_wh / capacity_wh when capacity_wh > 0 and 0 when capacity_wh is 0.
ChargeWithinUnit ==
    LET soc == state_of_charge(Self)
    IN  /\ soc[2] > 0
        /\ 0 <= soc[1] /\ soc[1] <= soc[2]
        /\ capacity_wh > 0 => soc = <<stored_wh, capacity_wh>>
        /\ capacity_wh = 0 => soc = <<0, 1>>

(* ------------------------------------------------------------------ *)
(* Properties of the setters and of switch_unit.                       *)
(* ------------------------------------------------------------------ *)
\* C11: a stored-setter call whose non-negative value, converted from the
\* current unit to Wh, exceeds capacity_wh raises the capacity-exceeded
\* ValueError and leaves stored_wh and the rest of the ledger as they were: it
\* never clamps.  (Spec)
StoredAboveCapacityRejected ==
    [][(/\ op' = "stored" /\ arg'.value >= 0
        /\ arg'.value * CONVERSIONS(unit) > capacity_wh)
           => (exc' = "ValueError" /\ ledger' = ledger)]_vars

\* C11 witness: with 1 J stored in a ledger of capacity 1 J, a stored-setter
\* call whose value lies above the capacity has raised; 1 J is still stored.
StoredSetterRaisedAboveCapacity ==
    /\ constructed /\ op = "stored" /\ exc = "ValueError"
    /\ arg.value > 0 /\ arg.value * CONVERSIONS(unit) > capacity_wh
    /\ capacity_wh = 1 /\ stored_wh = 1 /\ before = <<1, 1>>

\* C12: a capacity-setter call with a non-negative value returns; capacity_wh
\* is the value converted to Wh; stored_wh becomes the new capacity_wh when it
\* was above it and is unchanged otherwise.  (Spec)
CapacitySetterClampsStored ==
    [][(op' = "capacity" /\ arg'.value >= 0)
           => /\ exc' = "none"
              /\ capacity_wh' = arg'.value * CONVERSIONS(unit)
              /\ stored_wh' = IF capacity_wh' < stored_wh THEN capacity_wh'
                                                          ELSE stored_wh]_vars

\* C12 witness: the capacity setter has returned on a ledger that stored more
\* than the new, positive capacity; the stored energy is now that capacity.
StoredClampedByCapacitySetter ==
    /\ constructed /\ op = "capacity" /\ exc = "none"
    /\ capacity_wh > 0 /\ before[1] > capacity_wh
    /\ stored_wh = capacity_wh

\* C13: a capacity-setter or stored-setter call with a negative value raises
\* ValueError in every unit and leaves capacity_wh, stored_wh, the unit, the
\* total and the history as they were.  (Spec)
NegativeValueRejected ==
    [][(op' \in {"capacity", "stored"} /\ arg'.value < 0)
           => (exc' = "ValueError" /\ ledger' = ledger)]_vars

\* C13 witness: the stored setter has raised on a negative value while the unit
\* is kWh and the ledger holds a positive capacity and stored energy.
NegativeStoredRaised ==
    /\ constructed /\ op = "stored" /\ exc = "ValueError" /\ arg.value < 0
    /\ unit = "kwh" /\ capacity_wh > 0 /\ stored_wh > 0
    /\ before = <<stored_wh, capacity_wh>>

\* C14: switch_unit(u) with u one of wh, kwh, j returns and sets the unit to u;
\* capacity_wh, stored_wh, the total, the previous and initial raw readings
\* and the history are as they were.  (SpecCounter)
SwitchUnitChangesOnlyUnit ==
    [][(op' = "switch_unit" /\ arg'.new_unit \in Units)
           => /\ exc' = "none"
              /\ unit' = arg'.new_unit
              /\ <<capacity_wh, stored_wh, delta_wh, prev_wh_out, initial_wh_out,
                   history, max_history>>'
                     = <<capacity_wh, stored_wh, delta_wh, prev_wh_out,
                         initial_wh_out, history, max_history>>]_vars

\* C14 witness: switch_unit has moved a ledger with 1 Wh of capacity, 1 Wh
\* stored, a positive total and a history entry from Wh to kWh.
SwitchedToKwh ==
    /\ constructed /\ op = "switch_unit" /\ exc = "none"
    /\ arg.new_unit = "kwh" /\ unit = "kwh"
    /\ capacity_wh = Wh(1) /\ stored_wh = Wh(1) /\ total_out_wh(Self) > 0
    /\ Len(history) = 1

\* C15: switch_unit(u) with u outside wh, kwh, j raises ValueError and leaves the
\* unit and the rest of the ledger as they were, so the unit of a constructed
\* ledger is always a supported one and the setters keep converting with it.
\* (Spec)
UnsupportedUnitRejected ==
    [][(/\ (op' = "switch_unit" /\ arg'.new_unit \notin Units)
             => (exc' = "ValueError" /\ ledger' = ledger)
        /\ constructed' => unit' \in Units)]_vars

\* C15 witness: switch_unit has raised on an unsupported unit while the unit is
\* kWh; the capacity is the 1 kWh that was set in that unit.
UnsupportedUnitRaised ==
    /\ constructed /\ op = "switch_unit" /\ exc = "ValueError"
    /\ arg.new_unit \notin Units
    /\ unit = "kwh" /\ capacity_wh = KwhFactor * WhDen

(* ------------------------------------------------------------------ *)
(* Properties of the history and of average_power_w (SpecHistory).     *)
(* ------------------------------------------------------------------ *)
\* C16: the history never holds more than max_history entries; an update() that
\* returns appends the entry of its tick at the end, dropping the oldest entry
\* first when the history is full, and keeps the others in order; no other
\* call changes the history: it is the most recent min(n, max_history) ticks,
\* oldest first.
HistoryKeepsMostRecent ==
    [][constructed' =>
        /\ Len(history') <= max_history'
        /\ (op' = "update" /\ exc' = "none" /\ max_history > 0)
              => LET e == history'[Len(history')]
                 IN  /\ e.whOut = prev_wh_out'.v
                     /\ e.total_wh = delta_wh'
                     /\ history' = IF Len(history) = max_history
                                   THEN Tail(history) \o <<e>>
                                   ELSE history \o <<e>>
        /\ (op' # "__init__" /\ ~(op' = "update" /\ exc' = "none"))
              => history' = history]_vars

\* C16 witness: an update() has returned on a full history of two entries whose
\* oldest entry is not the one construction made (that one read the initial
\* raw value): an eviction has happened.
OldestEntryEvicted ==
    /\ constructed /\ op = "update" /\ exc = "none"
    /\ max_history = 2 /\ Len(history) = 2
    /\ history[1].whOut # initial_wh_out.v
    /\ history[1].timestamp < history[2].timestamp

\* C17: average_power_w() returns None, without raising, when the history holds
\* fewer than 2 entries or the newest timestamp is not after the oldest
\* retained one.
AveragePowerNoneWithoutElapsedTime ==
    (/\ op = "average_power_w"
     /\ \/ Len(history) < 2
        \/ history[Len(history)].timestamp - history[1].timestamp <= 0)
        => (ret = NoneV /\ exc = "none")

\* C17 witness: average_power_w() has returned None on two entries, the newer
\* with the earlier timestamp and the larger total.
AveragePowerNoneOnBackwardClock ==
    /\ constructed /\ op = "average_power_w" /\ ret = NoneV
    /\ Len(history) = 2
    /\ history[2].timestamp < history[1].timestamp
    /\ history[2].total_wh > history[1].total_wh

ConstructionLeavesOneEntry ==
    (op = "__init__" /\ exc = "none")
        => /\ constructed
           /\ Len(history) = 1
           /\ last(Self) = history[1]
           /\ last(Self).delta_wh = 0 /\ last(Self).total_wh = 0

(* ------------------------------------------------------------------ *)
(* The watts an entry records (SpecDevice).                            *)
(* ------------------------------------------------------------------ *)
\* C20: the entry an update() that returns appends records as wattsOut the
\* snapshot's wattsOut when it is present, ampsOut and volts present or not;
\* else ampsOut * volts when both are present (5 and 12 give 60); else None,
\* not 0.
RecordedWatts ==
    constructed =>
        \A st \in DeviceStates :
            LET r == update(Self, st, 0)
                e == last(r.L)
            IN  r.exc = "none" =>
                  /\ Len(r.L.history) = 1
                  /\ ~IsNone(st.wattsOut) => e.wattsOut = st.wattsOut
                  /\ (/\ IsNone(st.wattsOut)
                      /\ ~IsNone(st.ampsOut) /\ ~IsNone(st.volts))
                        => e.wattsOut = Num(st.ampsOut.v * st.volts.v)
                  /\ (IsNone(st.wattsOut) /\ st.ampsOut = Num(5) /\ st.volts = Num(12))
                        => e.wattsOut = Num(60)
                  /\ (IsNone(st.wattsOut) /\ (IsNone(st.ampsOut) \/ IsNone(st.volts)))
                        => (e.wattsOut = NoneV /\ e.wattsOut # Num(0))

\* C20 witness: an update() has returned and its entry records 5 A, 12 V and
\* the derived 60 W.
DerivedWattsRecorded ==
    /\ constructed /\ op = "update" /\ exc = "none" /\ Len(history) = 1
    /\ history[1].ampsOut = Num(5) /\ history[1].volts = Num(12)
    /\ history[1].wattsOut = Num(60)

(* ------------------------------------------------------------------ *)
(* Unit conversion (Spec).                                             *)
(* ------------------------------------------------------------------ *)
RECURSIVE GCD(_, _)
\* greatest common divisor of two naturals
GCD(a, b) == IF b = 0 THEN a ELSE GCD(b, a % b)

Abs(n) == IF n < 0 THEN -n ELSE n

\* a ratio in lowest terms
Reduce(q) ==
    LET g == GCD(Abs(q[1]), Abs(q[2]))
    IN  <<q[1] \div g, q[2] \div g>>

\* the product of two ratios in lowest terms, in lowest terms
RatioTimes(p, q) ==
    LET a == Reduce(<<p[1], q[2]>>)
        b == Reduce(<<q[1], p[2]>>)
    IN  <<a[1] * b[1], a[2] * b[2]>>

\* the canonical value of x in unit u: 1 kWh = 1000 Wh, 3600 J = 1 Wh
CanonicalOf(x, u, wh) ==
    CASE u = "wh" -> wh = Wh(x)
      [] u = "kwh" -> wh = Wh(1000 * x)
      [] u = "j" -> 3600 * wh = Wh(x)

\* C21: a capacity (or stored) setter call that returns with value x in unit u
\* leaves the canonical value x times the unit-to-Wh factor (kwh and 2 give
\* 2000 Wh) and the getter reads x back; after switch_unit(u2) both getters
\* return what they returned before times factor(u) / factor(u2), the same
\* energy expressed in u2.
UnitRoundTrip ==
    [][/\ (op' = "capacity" /\ exc' = "none")
             => /\ CanonicalOf(arg'.value, unit', capacity_wh')
                /\ Reduce(capacity_get(Self)') = <<arg'.value, 1>>
                /\ (unit' = "kwh" /\ arg'.value = 2) => capacity_wh' = Wh(2000)
       /\ (op' = "stored" /\ exc' = "none")
             => /\ CanonicalOf(arg'.value, unit', stored_wh')
                /\ Reduce(stored_get(Self)') = <<arg'.value, 1>>
       /\ (op' = "switch_unit" /\ exc' = "none")
             => LET c == Reduce(<<CONVERSIONS(unit), CONVERSIONS(unit')>>)
                IN  /\ Reduce(capacity_get(Self)')
                          = RatioTimes(Reduce(capacity_get(Self)), c)
                    /\ Reduce(stored_get(Self)')
                          = RatioTimes(Reduce(stored_get(Self)), c)]_vars

\* C21 witness: a capacity of 2000 Wh, 1 J of it stored, has been switched to
\* joules: the capacity getter returns 7200000 and the stored getter 1.
CapacityReadInJoules ==
    /\ constructed /\ op = "switch_unit" /\ exc = "none" /\ unit = "j"
    /\ capacity_wh = Wh(2000) /\ stored_wh = 1
    /\ Reduce(capacity_get(Self)) = <<7200000, 1>>
    /\ Reduce(stored_get(Self)) = <<1, 1>>

(* ------------------------------------------------------------------ *)
(* The stored energy an update() leaves (Spec).                        *)
(* ------------------------------------------------------------------ *)
\* C22: an update() that returns on a snapshot with a numeric whStored = v
\* leaves stored_wh = min(v, capacity_wh); one that returns on a snapshot
\* without whStored leaves stored_wh as it was; no update(), returning or
\* raising, changes capacity_wh.
UpdateOverwritesStored ==
    constructed =>
        \A st \in LedgerStates :
            LET r == update(Self, st, 0)
            IN  /\ r.L.capacity_wh = capacity_wh
                /\ (r.exc = "none" /\ FloatOk(st.whStored))
                      => r.L.stored_wh = IF Wh(st.whStored.v) < capacity_wh
                                         THEN Wh(st.whStored.v) ELSE capacity_wh
                /\ (r.exc = "none" /\ IsNone(st.whStored))
                      => r.L.stored_wh = stored_wh

\* C22 witness: an update() has returned on a ledger that stored nothing and
\* whose capacity is above the 1 Wh the device reported: 1 Wh is stored.
StoredOverwrittenByUpdate ==
    /\ constructed /\ op = "update" /\ exc = "none"
    /\ Len(history) = 1 /\ history[1].whStored = Num(Wh(1))
    /\ capacity_wh > Wh(1) /\ before = <<0, capacity_wh>>
    /\ stored_wh = Wh(1)

(* ------------------------------------------------------------------ *)
(* The entries against the counter (SpecHistory).                      *)
(* ------------------------------------------------------------------ *)
\* C23: every entry has delta_wh >= 0, 0 in the entry of the first tick; the
\* newest entry's total_wh is total_out_wh; each retained entry's total_wh is
\* its predecessor's plus its own delta_wh, so total_wh never falls along the
\* history.
EntriesConsistentWithLedger ==
    constructed =>
        /\ \A i \in 1..Len(history) : history[i].delta_wh >= 0
        /\ (op = "__init__" /\ Len(history) = 1) => history[1].delta_wh = 0
        /\ Len(history) > 0 => history[Len(history)].total_wh = total_out_wh(Self)
        /\ \A i \in 1..(Len(history) - 1) :
              /\ history[i + 1].total_wh
                    = history[i].total_wh + history[i + 1].delta_wh
              /\ history[i + 1].total_wh >= history[i].total_wh

\* C24: when average_power_w() returns a value (2 or more entries, the newest
\* timestamp after the oldest retained one) the value is >= 0, whatever the
\* raw readings and the clock did; total_wh never falls along the history.
AveragePowerNeverNegative ==
    /\ \A i \in 1..(Len(history) - 1) :
          history[i + 1].total_wh >= history[i].total_wh
    /\ (op = "average_power_w" /\ ret.k = "num")
          => /\ Len(history) >= 2
             /\ history[Len(history)].timestamp > history[1].timestamp
             /\ ret.v[1] >= 0 /\ ret.v[2] > 0

\* C24 witness: average_power_w() has returned a value over a window in which
\* the raw counter fell (a reset).
AveragePowerAcrossReset ==
    /\ constructed /\ op = "average_power_w" /\ ret.k = "num"
    /\ Len(history) = 2
    /\ history[2].whOut < history[1].whOut
    /\ ret.v[1] >= 0

(* ------------------------------------------------------------------ *)
(* The ledger of the controller (SpecController).                      *)
(* ------------------------------------------------------------------ *)
\* C25: a ledger built with the default capacity 0, whose capacity is never
\* set, has stored_wh = 0 and state_of_charge = 0 after every update, whatever
\* non-negative whStored the device reports, and the entry of an update that
\* returns records the whStored as reported.
DefaultCapacityStoresNothing ==
    constructed =>
        /\ capacity_wh = 0 /\ stored_wh = 0
        /\ state_of_charge(Self) = <<0, 1>>
        /\ \A st \in ControllerStates :
              LET r == update(Self, st, 0)
              IN  /\ r.L.stored_wh = 0
                  /\ (r.exc = "none" /\ ~IsNone(st.whStored))
                        => last(r.L).whStored = Num(Wh(st.whStored.v))

\* C25 witness: a later read of the controller's ledger has returned with the
\* device reporting 1 Wh stored: the entry holds 1 Wh, the ledger stores 0.
ReportedStoredOnlyInEntry ==
    /\ constructed /\ op = "energy_storage" /\ exc = "none"
    /\ Len(history) >= 2 /\ last(Self).whStored = Num(Wh(1))
    /\ capacity_wh = 0 /\ stored_wh = 0

\* C26: every read of energy_storage makes one update() attempt (one read of
\* device.state); a ledger is held from the first read that returns and is the
\* same one from then on; after k reads that returned its history holds
\* min(k, max_history) entries; a construction that raises leaves no ledger,
\* and the next read constructs again.
OneTickPerRead ==
    [][/\ reads'.attempted = reads.attempted + 1
       /\ reads'.state_reads = reads.state_reads + 1
       /\ constructed' = (reads'.returned > 0)
       /\ constructed'
             => Len(history') = IF reads'.returned < max_history'
                                THEN reads'.returned ELSE max_history'
       /\ constructed
             => /\ constructed'
                /\ initial_wh_out' = initial_wh_out
                /\ max_history' = max_history
                /\ Len(history') = Len(history) + IF exc' = "none" THEN 1 ELSE 0
       /\ (~constructed /\ exc' # "none")
             => (~constructed' /\ ledger' = ledger)
       /\ (~constructed /\ exc' = "none")
             => (/\ Len(history') = 1
                 /\ history'[1].delta_wh = 0 /\ history'[1].total_wh = 0)]_vars

\* C26 witness: four reads of which one raised and three returned: the ledger
\* holds three entries, the construction's first.
ThreeTicksInFourReads ==
    /\ constructed /\ op = "energy_storage"
    /\ reads = [attempted |-> 4, returned |-> 3, state_reads |-> 4]
    /\ Len(history) = 3 /\ history[1].delta_wh = 0
    /\ history[3].total_wh = Wh(1)

====
